---- MODULE Spec2Model ----
(***************************************************************************)
(* Smart Task Manager: the Express servers of the repository (src/Server.js *)
(* and its two later revisions src/unnamed/part_000, src/unnamed/part_001)  *)
(* over the Mongoose models Task (src/Models/Task.js) and User              *)
(* (src/unnamed/part_003).                                                  *)
(*                                                                          *)
(* A request handler is an async function: the store calls it awaits are    *)
(* its only suspension points, so a handler with one store call is one      *)
(* action and a handler with several (reorder, register, the login of       *)
(* Server.js) is one action per store call, which other requests may        *)
(* interleave with.                                                         *)
(***************************************************************************)
EXTENDS Integers, Sequences, FiniteSets, TLC

\* ---------------------------------------------------------------- bounds
\* Task ids ever allocated (ObjectIds are never reused).
MaxTasks == 2
\* Longest taskIds array of a reorder request.
MaxLen == MaxTasks
\* Reorder requests that may be in flight at once.
MaxReqs == 2
\* The last tick of the clock.
MaxTime == 3

\* ------------------------------------------------------------ the values
\* Which revision of the server is deployed.
Variants == {"Server", "part_000", "part_001"}
\* Browsers (cookie jars).
Clients == {"c1", "c2", "c3"}
Usernames == {"alice", "bob"}
Passwords == {"pw1", "pw2"}
\* No user: the id of an absent req.session.user / req.user.
NoUser == 0
\* The ObjectIds a request may name: those of the tasks ever created (a task
\* not yet created, or deleted, is an id that does not exist).
TaskIds == 1..MaxTasks
\* A string that is no ObjectId.
MalformedId == -1
\* An absent string field of a request body (undefined), and JSON null.
Undef == "<undefined>"
Null == "<null>"
\* An absent deadline of a request body (undefined); 0 in a body is "" or null.
NoDeadline == -1
NoTask == [userId |-> NoUser, title |-> "", description |-> "", priority |-> "",
           deadline |-> 0, status |-> "", order |-> 0]
\* deadline: 0 is "no deadline" (the field is absent or null), else a date.
Deadlines == {0, 1, 2}

VARIABLES
  variant,   \* the deployed revision
  users,     \* the User collection: a sequence, _id = index
  session,   \* session[c]: req.session.user of the requests of c's browser
  pend,      \* pend[c]: the auth request of c suspended between store calls
  tasks,     \* the Task collection: tasks[id] a document or NoTask
  created,   \* the number of task ids allocated so far
  reqs,      \* reqs[r]: a reorder request: idle, writing or done
  resp,      \* the response (if any) sent by the last step
  now,       \* the clock, in ticks
  jar,       \* jar[c]: the session cookie the browser of c holds, its expiry
  store,     \* the session store of express-session: store[sid]
  kept       \* kept[c]: a copy of a session cookie's value c made

vars == <<variant, users, session, pend, tasks, created, reqs, resp,
          now, jar, store, kept>>

\* --------------------------------------------------------------- responses
\* A response: the operation and its arguments, the HTTP status, the message
\* (the JSON error/message text, the text sent, or the redirect's message),
\* the task ids a list returned, the reorder request answered.
NoResp == [op |-> "none", route |-> "", c |-> "", id |-> 0, ids |-> <<>>,
           code |-> 0, msg |-> "", list |-> <<>>, req |-> 0, name |-> ""]

Reply(op, route, c, id, ids, code, msg) ==
  [op |-> op, route |-> route, c |-> c, id |-> id, ids |-> ids, code |-> code,
   msg |-> msg, list |-> <<>>, req |-> 0, name |-> ""]

\* The answer to a login, register or logout request for the username name.
AuthReply(op, c, name, code, msg) ==
  [Reply(op, "form", c, 0, <<>>, code, msg) EXCEPT !.name = name]

\* requireLogin / isLoggedIn refusing a request without req.session.user; the
\* /api routes of part_001 carry no middleware, and req.user.id throws a
\* TypeError inside the handler's try: its catch answers 500 with failMsg.
AuthFailure(op, route, c, id, ids, failMsg) ==
  IF route = "api"
  THEN IF variant = "part_001"
       THEN Reply(op, route, c, id, ids, 500, failMsg)
       ELSE Reply(op, route, c, id, ids, 401, "Authentication required")
  ELSE Reply(op, route, c, id, ids, 302, "/login")

\* ------------------------------------------------------------------ tasks
Range(s) == {s[i] : i \in DOMAIN s}

Exists(t) == t \in DOMAIN tasks /\ tasks[t] # NoTask

\* The userId term of a Task query filter: { ..., userId: <session user id> }.
OwnerMatchAny(t, uid) == TRUE
OwnerMatch(t, uid) == tasks[t].userId = uid

\* The documents matched by the filter { _id: id, userId: uid }.
Matching(id, uid) ==
  {t \in DOMAIN tasks : Exists(t) /\ t = id /\ OwnerMatch(t, uid)}

\* The documents matched by the filter { userId: uid }.
OwnedBy(uid) == {t \in DOMAIN tasks : Exists(t) /\ OwnerMatch(t, uid)}

\* .sort({ order: 1, deadline: 1 }), and .sort({ deadline: 1 }) in Server.js:
\* ascending, a missing or null deadline before every date (BSON order).
SortKey(t) ==
  IF variant = "Server" THEN <<tasks[t].deadline>>
  ELSE <<tasks[t].order, tasks[t].deadline>>

RECURSIVE KeyLeq(_, _)
KeyLeq(a, b) ==
  IF a = <<>> THEN TRUE
  ELSE IF Head(a) # Head(b) THEN Head(a) < Head(b)
  ELSE KeyLeq(Tail(a), Tail(b))

\* What Task.find({ userId: uid }).sort(...) may return: the owner's documents
\* in ascending key order, documents with equal keys in any order.
ListResults(uid) ==
  LET S == OwnedBy(uid)
      n == Cardinality(S)
  IN {s \in [1..n -> S] :
        /\ \A i, j \in 1..n : i # j => s[i] # s[j]
        /\ \A i, j \in 1..n : i < j => KeyLeq(SortKey(s[i]), SortKey(s[j]))}

\* GET /api/tasks (route "api") and GET /dashboard (route "form").
ListTasks(c, route) ==
  /\ IF session[c] = NoUser
     THEN resp' = AuthFailure("list", route, c, 0, <<>>,
                              "Failed to fetch tasks")
     ELSE \E l \in ListResults(session[c]) :
            resp' = [Reply("list", route, c, 0, <<>>, 200, "") EXCEPT !.list = l]
  /\ UNCHANGED <<variant, now, users, session, jar, store, kept,
                 pend, tasks, created, reqs>>

\* ---------------------------------------------------------------- create
Priorities == {"low", "medium", "high"}
Statuses == {"pending", "done"}

\* Schema setter trim: true, and express-validator's trim().
Trim(s) == IF s = " " THEN "" ELSE s
\* express-validator's escape(): HTML-escapes <, >, &, ', " and /.
Escape(s) == IF s = "<b>" THEN "&lt;b&gt;" ELSE s
\* The length of a model string; "T201" and "D2001" stand for strings of
\* 201 and 2001 characters.
StrLen(s) ==
  CASE s = "" -> 0
    [] s = " " -> 1
    [] s = "T201" -> 201
    [] s = "D2001" -> 2001
    [] OTHER -> 8
Falsy(s) == s \in {Undef, Null, ""}
\* express-validator hands its sanitizers and validators the value as a
\* string: null becomes "".
Str(s) == IF s = Null THEN "" ELSE s

\* The express-validator chains of Server.js on a task body; create requires
\* a title, PUT takes it as optional.
ServerBodyValid(b, titleRequired) ==
  /\ IF b.title = Undef THEN ~titleRequired
     ELSE StrLen(Trim(Str(b.title))) >= 1 /\ StrLen(Trim(Str(b.title))) <= 200
  /\ b.description = Undef \/ StrLen(Trim(Str(b.description))) <= 2000
  /\ b.priority = Undef \/ b.priority \in Priorities
  /\ b.deadline = NoDeadline \/ b.deadline > 0

\* A create that copies the body's status into the document.
NewTaskStatusFromBody(uid, b) ==
  [userId |-> uid,
   title |-> Trim(IF Falsy(b.title) THEN "Untitled Task" ELSE b.title),
   description |-> IF Falsy(b.description) THEN "" ELSE b.description,
   priority |-> IF Falsy(b.priority) THEN "medium" ELSE b.priority,
   deadline |-> IF b.deadline > 0 THEN b.deadline ELSE 0,
   status |-> IF Falsy(b.status) THEN "pending" ELSE b.status, order |-> 0]

\* The document Task.create is given by POST /api/tasks and POST /tasks.
NewTask(uid, b) ==
  IF variant = "Server"
  THEN [userId |-> uid,
        title |-> Trim(Escape(Trim(b.title))),
        description |-> IF Falsy(b.description) THEN ""
                        ELSE Trim(Escape(Trim(b.description))),
        priority |-> IF Falsy(b.priority) THEN "medium" ELSE b.priority,
        deadline |-> IF b.deadline > 0 THEN b.deadline ELSE 0,
        status |-> "pending", order |-> 0]
  ELSE [userId |-> uid,
        title |-> Trim(IF Falsy(b.title) THEN "Untitled Task" ELSE b.title),
        description |-> IF Falsy(b.description) THEN "" ELSE b.description,
        priority |-> IF Falsy(b.priority) THEN "medium" ELSE b.priority,
        deadline |-> IF b.deadline > 0 THEN b.deadline ELSE 0,
        status |-> "pending", order |-> 0]

\* Mongoose's validation of a document on save: title required, the enums.
SchemaValid(d) ==
  /\ d.title # ""
  /\ d.priority \in Priorities
  /\ d.status \in Statuses

\* POST /api/tasks (route "api") and POST /tasks (route "form").
CreateTask(c, route, b) ==
  /\ created < MaxTasks
  /\ IF session[c] = NoUser
     THEN /\ resp' = AuthFailure("create", route, c, 0, <<>>,
                                 "Failed to create task")
          /\ UNCHANGED <<tasks, created>>
     ELSE IF variant = "Server" /\ ~ServerBodyValid(b, TRUE)
     THEN /\ resp' = Reply("create", route, c, 0, <<>>,
                           IF route = "api" THEN 400 ELSE 302, "validation")
          /\ UNCHANGED <<tasks, created>>
     ELSE IF ~SchemaValid(NewTask(session[c], b))
     THEN /\ resp' = Reply("create", route, c, 0, <<>>,
                           IF route = "api" \/ variant = "Server"
                           THEN 500 ELSE 302,
                           "Failed to create task")
          /\ UNCHANGED <<tasks, created>>
     ELSE /\ created' = created + 1
          /\ tasks' = [tasks EXCEPT ![created + 1] = NewTask(session[c], b)]
          /\ resp' = Reply("create", route, c, created + 1, <<>>,
                           IF route = "api" THEN 201 ELSE 302, "created")
  /\ UNCHANGED <<variant, now, users, session, jar, store, kept, pend, reqs>>

\* ------------------------------------------------- update, status, delete
\* An update that replaces the document: fields the body lacks fall back to
\* their defaults.
ApplyUpdateReplace(d, b) ==
  [d EXCEPT
     !.title = IF b.title = Undef THEN @ ELSE Trim(b.title),
     !.description = IF b.description = Undef THEN "" ELSE b.description,
     !.priority = IF b.priority = Undef THEN "medium" ELSE b.priority,
     !.status = IF b.status = Undef THEN "pending" ELSE b.status,
     !.deadline = IF b.deadline > 0 THEN b.deadline ELSE 0]

\* An update that also copies the body's userId into the document.
ApplyUpdateWithOwner(d, b) ==
  [d EXCEPT
     !.userId = IF b.userId = NoUser THEN @ ELSE b.userId,
     !.title = IF b.title = Undef THEN @ ELSE Trim(b.title),
     !.status = IF b.status = Undef THEN @ ELSE b.status]

\* The updateData object PUT /api/tasks/:id builds from the body, applied to
\* document d: only the fields the body holds are set.
ApplyUpdate(d, b) ==
  [d EXCEPT
     !.title = IF b.title = Undef THEN @
               ELSE IF variant = "Server"
                    THEN Trim(Escape(Trim(Str(b.title))))
               ELSE Trim(b.title),
     !.description = IF b.description = Undef THEN @
                     ELSE IF variant = "Server"
                          THEN Trim(Escape(Trim(Str(b.description))))
                     ELSE b.description,
     !.priority = IF b.priority = Undef THEN @ ELSE b.priority,
     !.status = IF b.status = Undef THEN @ ELSE b.status,
     !.deadline = IF b.deadline = NoDeadline THEN @
                  ELSE IF b.deadline > 0 THEN b.deadline ELSE 0]

\* The answer to a task id that is no ObjectId: the param("id") validator of
\* Server.js answers 400; elsewhere the query's CastError reaches the catch.
MalformedReply(op, route, c, failMsg) ==
  IF variant = "Server"
  THEN Reply(op, route, c, MalformedId, <<>>,
             IF route = "api" THEN 400 ELSE 302, "Invalid task ID")
  ELSE Reply(op, route, c, MalformedId, <<>>,
             IF route = "api" THEN 500 ELSE 302, failMsg)

\* The answer when no document matches { _id: id, userId: ... }.
ForbiddenIfExists(op, route, c, id) ==
  IF Exists(id)
  THEN Reply(op, route, c, id, <<>>, 403, "Forbidden")
  ELSE Reply(op, route, c, id, <<>>,
             IF route = "api" \/ variant = "Server" THEN 404 ELSE 302,
             "Task not found")
NotFoundReply(op, route, c, id) ==
  Reply(op, route, c, id, <<>>,
        IF route = "api" \/ variant = "Server" THEN 404 ELSE 302,
        "Task not found")

\* updateData.title = title.toString() and its like on a null field: a
\* TypeError, thrown in part_000 and part_001 before the handler's try.
NullField(b) == Null \in {b.title, b.description, b.priority, b.status}

\* The answer to a request whose async handler threw outside its try: the
\* promise the handler returned is rejected. Express 4 ignores that promise,
\* and no response is ever sent (code 0); Express 5 passes the error to its
\* default error handler, which answers 500.
Thrown(op, route, c, id) ==
  {Reply(op, route, c, id, <<>>, 0, "TypeError"),
   Reply(op, route, c, id, <<>>, 500, "Internal Server Error")}

\* PUT /api/tasks/:id.
UpdateTask(c, id, b) ==
  /\ IF variant # "Server" /\ NullField(b)
        /\ (session[c] # NoUser \/ variant = "part_001")
     THEN /\ resp' \in Thrown("update", "api", c, id)
          /\ UNCHANGED tasks
     ELSE IF session[c] = NoUser
     THEN /\ resp' = AuthFailure("update", "api", c, id, <<>>,
                                 "Failed to update task")
          /\ UNCHANGED tasks
     ELSE IF id = MalformedId
     THEN /\ resp' = MalformedReply("update", "api", c, "Failed to update task")
          /\ UNCHANGED tasks
     ELSE IF variant = "Server"
             /\ (~ServerBodyValid(b, FALSE)
                   \/ (b.status # Undef /\ b.status \notin Statuses))
     THEN /\ resp' = Reply("update", "api", c, id, <<>>, 400, "validation")
          /\ UNCHANGED tasks
     ELSE IF Matching(id, session[c]) = {}
     THEN /\ resp' = NotFoundReply("update", "api", c, id)
          /\ UNCHANGED tasks
     ELSE /\ tasks' = [t \in DOMAIN tasks |->
                         IF t \in Matching(id, session[c])
                         THEN ApplyUpdate(tasks[t], b) ELSE tasks[t]]
          /\ resp' = Reply("update", "api", c, id, <<>>, 200, "task")
  /\ UNCHANGED <<variant, now, users, session, jar, store, kept,
                 pend, created, reqs>>

\* POST /tasks/:id/status.
StatusTask(c, id, status) ==
  /\ IF session[c] = NoUser
     THEN /\ resp' = AuthFailure("status", "form", c, id, <<>>, "")
          /\ UNCHANGED tasks
     ELSE IF id = MalformedId
     THEN /\ resp' = MalformedReply("status", "form", c,
                                    "Failed to update task. Please try again.")
          /\ UNCHANGED tasks
     ELSE IF variant = "Server" /\ status \notin Statuses
     THEN /\ resp' = Reply("status", "form", c, id, <<>>, 302,
                           "Status must be pending or done")
          /\ UNCHANGED tasks
     ELSE IF Matching(id, session[c]) = {}
     THEN /\ resp' = NotFoundReply("status", "form", c, id)
          /\ UNCHANGED tasks
     ELSE /\ tasks' = [t \in DOMAIN tasks |->
                         IF t \in Matching(id, session[c])
                         THEN [tasks[t] EXCEPT
                                 !.status = IF variant # "Server" /\ Falsy(status)
                                            THEN "pending" ELSE status]
                         ELSE tasks[t]]
          /\ resp' = Reply("status", "form", c, id, <<>>, 302, "/dashboard")
  /\ UNCHANGED <<variant, now, users, session, jar, store, kept,
                 pend, created, reqs>>

\* DELETE /api/tasks/:id (route "api") and POST /tasks/:id/delete ("form").
DeleteTask(c, route, id) ==
  /\ IF session[c] = NoUser
     THEN /\ resp' = AuthFailure("delete", route, c, id, <<>>,
                                 "Failed to delete task")
          /\ UNCHANGED tasks
     ELSE IF id = MalformedId
     THEN /\ resp' = MalformedReply("delete", route, c, "Failed to delete task")
          /\ UNCHANGED tasks
     ELSE IF Matching(id, session[c]) = {}
     THEN /\ resp' = NotFoundReply("delete", route, c, id)
          /\ UNCHANGED tasks
     ELSE /\ tasks' = [t \in DOMAIN tasks |->
                         IF t \in Matching(id, session[c])
                         THEN NoTask ELSE tasks[t]]
          /\ resp' = Reply("delete", route, c, id, <<>>,
                           IF route = "api" THEN 200 ELSE 302, "Task deleted")
  /\ UNCHANGED <<variant, now, users, session, jar, store, kept,
                 pend, created, reqs>>

\* ---------------------------------------------------------------- reorder
\* POST /api/tasks/reorder awaits Task.find, then issues one Task.updateOne
\* per element of taskIds and awaits them all: the store applies the writes
\* of one request, and those of concurrent requests, in any order.
Reqs == 1..MaxReqs
IdleReq == [phase |-> "idle", c |-> "", userId |-> NoUser, ids |-> <<>>,
            pending |-> {}]

\* The request slot a new reorder request takes: the first not writing.
FreeSlots == {r \in Reqs : reqs[r].phase # "writing"}
NextSlot == CHOOSE r \in FreeSlots : \A q \in FreeSlots : r <= q

\* Task.find({ _id: { $in: taskIds }, userId: userId }).
FindOwned(ids, uid) == {t \in OwnedBy(uid) : t \in Range(ids)}

\* tasks.length !== taskIds.length answers 403: the check passes when the
\* find returned as many tasks as the list has elements.
AnyOwned(ids, uid) == FindOwned(ids, uid) # {}
\* A check that counts the distinct ids of the list.
AllOwnedDistinct(ids, uid) ==
  Cardinality(FindOwned(ids, uid)) = Cardinality(Range(ids))
AllOwned(ids, uid) == Cardinality(FindOwned(ids, uid)) = Len(ids)

\* The body's taskIds is no array.
ReorderNotArray(c) ==
  /\ variant # "Server"
  /\ resp' = IF session[c] = NoUser /\ variant = "part_000"
             THEN AuthFailure("reorder", "api", c, 0, <<>>, "")
             ELSE Reply("reorder", "api", c, 0, <<>>, 400,
                        "taskIds must be an array")
  /\ UNCHANGED <<variant, now, users, session, jar, store, kept,
                 pend, tasks, created, reqs>>

\* The handler up to the answer of Task.find: the ownership check.
ReorderStart(c, ids) ==
  /\ variant # "Server"
  /\ IF session[c] = NoUser
     THEN /\ resp' = AuthFailure("reorder", "api", c, 0, ids,
                                 "Failed to reorder tasks")
          /\ UNCHANGED reqs
     ELSE IF MalformedId \in Range(ids)
     THEN /\ resp' = Reply("reorder", "api", c, 0, ids, 500,
                           "Failed to reorder tasks")
          /\ UNCHANGED reqs
     ELSE IF ~AllOwned(ids, session[c])
     THEN /\ resp' = Reply("reorder", "api", c, 0, ids, 403,
                           "Some tasks not found or unauthorized")
          /\ UNCHANGED reqs
     ELSE /\ FreeSlots # {}
          /\ reqs' = [reqs EXCEPT ![NextSlot] =
                        [phase |-> "writing", c |-> c, userId |-> session[c],
                         ids |-> ids, pending |-> DOMAIN ids]]
          /\ resp' = NoResp
  /\ UNCHANGED <<variant, now, users, session, jar, store, kept,
                 pend, tasks, created>>

\* The index taskIds.map passes for the element at (1-based) position i.
IndexOneBased(i) == i
IndexOf(i) == i - 1

\* A write that sets the order of every task of the requester.
ReorderWriteMany(r, i) ==
  /\ reqs[r].phase = "writing"
  /\ i \in reqs[r].pending
  /\ tasks' = [t \in DOMAIN tasks |->
                 IF t \in OwnedBy(reqs[r].userId)
                 THEN [tasks[t] EXCEPT !.order = IndexOf(i)] ELSE tasks[t]]
  /\ reqs' = [reqs EXCEPT ![r].pending = @ \ {i}]
  /\ resp' = NoResp
  /\ UNCHANGED <<variant, now, users, session, jar, store, kept, pend, created>>

\* Task.updateOne({ _id: taskId, userId: userId }, { order: index }) for the
\* element at (1-based) position i of request r.
ReorderWrite(r, i) ==
  /\ reqs[r].phase = "writing"
  /\ i \in reqs[r].pending
  /\ tasks' = [t \in DOMAIN tasks |->
                 IF t \in Matching(reqs[r].ids[i], reqs[r].userId)
                 THEN [tasks[t] EXCEPT !.order = IndexOf(i)] ELSE tasks[t]]
  /\ reqs' = [reqs EXCEPT ![r].pending = @ \ {i}]
  /\ resp' = NoResp
  /\ UNCHANGED <<variant, now, users, session, jar, store, kept, pend, created>>

\* Promise.all resolved: every write of request r is applied.
ReorderRespond(r) ==
  /\ reqs[r].phase = "writing"
  /\ reqs[r].pending = {}
  /\ reqs' = [reqs EXCEPT ![r].phase = "done"]
  /\ resp' = [Reply("reorder", "api", reqs[r].c, 0, reqs[r].ids, 200,
                    "Tasks reordered successfully") EXCEPT !.req = r]
  /\ UNCHANGED <<variant, now, users, session, jar, store, kept,
                 pend, tasks, created>>

\* The handler of a request that passes the ownership check when the
\* updateOne of position i rejects (the store fails): Promise.all rejects and
\* the catch answers 500. The other updateOne calls were issued by the same
\* map and are not undone: those of the positions in done are applied.
ReorderFailed(c, ids, i, done) ==
  /\ variant # "Server"
  /\ session[c] # NoUser
  /\ MalformedId \notin Range(ids)
  /\ AllOwned(ids, session[c])
  /\ i \in DOMAIN ids
  /\ done \subseteq DOMAIN ids \ {i}
  /\ resp' = Reply("reorder", "api", c, 0, ids, 500, "Failed to reorder tasks")
  /\ tasks' = [t \in DOMAIN tasks |->
                 IF \E j \in done : t \in Matching(ids[j], session[c])
                 THEN [tasks[t] EXCEPT !.order =
                         IndexOf(CHOOSE j \in done : ids[j] = t)]
                 ELSE tasks[t]]
  /\ UNCHANGED <<variant, now, users, session, jar, store, kept,
                 pend, created, reqs>>

\* ------------------------------------------------------------------ users
\* bcrypt.hash and bcrypt.compare.
Hash(pw) == <<"bcrypt", pw>>
Compare(pw, h) == h = Hash(pw)

NoPend == [kind |-> "none", username |-> "", password |-> "", googleId |-> "",
           displayName |-> ""]

\* A User document: Server.js stores passwordHash, the later revisions the
\* password itself, googleId and displayName ("" is an absent field).
UserDocNoCredential(username, password) ==
  [username |-> username, password |-> "", passwordHash |-> <<>>,
   googleId |-> "", displayName |-> username]
UserDoc(username, password) ==
  IF variant = "Server"
  THEN [username |-> username, password |-> "",
        passwordHash |-> Hash(password), googleId |-> "", displayName |-> ""]
  ELSE [username |-> username, password |-> password,
        passwordHash |-> <<>>, googleId |-> "", displayName |-> username]

\* User.findOne({ username }): the ids of the users of that name (at most one).
FindNobody(u) == {}
FindByUsername(u) == {i \in DOMAIN users : users[i].username = u}

\* The username chain of Server.js: trim, length 3..30, [a-zA-Z0-9_]+.
UsernameLen(u) == CASE u = "" -> 0 [] u = "alice" -> 5 [] u = "bob" -> 3
ServerUsernameValid(u) == UsernameLen(u) >= 3 /\ UsernameLen(u) <= 30

\* ---------------------------------------------------------------- sessions
\* maxAge: 24 * 60 * 60 * 1000 of the session cookie, in ticks of twelve hours.
MaxAge == 2

\* The value of a session cookie. cookie-session (Server.js, part_000) sends
\* the session object itself, { user: { id, username } }, with its signature:
\* the same bytes for every session of a user. express-session (part_001)
\* sends the signed id of a session it keeps in its store.
NoToken == [kind |-> "none", val |-> 0]
Signed(i) == [kind |-> "signed", val |-> i]
Sid(n) == [kind |-> "sid", val |-> n]
Sids == 1..(Cardinality(Clients) + 2)

NoCookie == [tk |-> NoToken, expires |-> 0]
NoSession == [user |-> NoUser, expires |-> 0]
\* A copied cookie value, with the time the session it names was created.
NoKept == [tk |-> NoToken, created |-> 0]

\* The principal the session middleware finds for a request carrying cookie
\* value tk. cookie-session verifies the signature and decodes the object: the
\* expiry is an attribute of the cookie, not of its value. express-session
\* reads store[sid], which MemoryStore gives only before cookie.expires.
Resolve(tk) ==
  IF tk.kind = "signed" THEN tk.val
  ELSE IF tk.kind = "sid" /\ store[tk.val].user # NoUser
          /\ store[tk.val].expires > now
  THEN store[tk.val].user
  ELSE NoUser

\* The store after a request that carried tk: express-session touch()es the
\* session it resolved at the end of every response, setting cookie.expires
\* to maxAge from now in the store; rolling is off, so the browser's cookie is
\* not sent again.
Touched(tk) ==
  IF tk.kind = "sid" /\ Resolve(tk) # NoUser
  THEN [store EXCEPT ![tk.val].expires = now + MaxAge]
  ELSE store

\* The session id generated for a new session of the browser of c: one that
\* names no other session and that no other browser and no copy holds (ids
\* are random; which unused one is taken shows in no response).
Home(c) == IF c = "c1" THEN 1 ELSE IF c = "c2" THEN 2 ELSE 3
FreshSid(c) ==
  LET free == {n \in Sids : /\ store[n] = NoSession \/ jar[c].tk = Sid(n)
                            /\ \A d \in Clients \ {c} : jar[d].tk # Sid(n)
                            /\ \A d \in Clients : kept[d].tk # Sid(n)}
      spare == {n \in free : n > Cardinality(Clients)}
  IN IF Home(c) \in free THEN Home(c)
     ELSE CHOOSE n \in spare : \A m \in spare : n <= m

\* req.session.user = {...} / req.logIn(user): the browser of c is logged in
\* as user i. cookie-session sends the cookie when the session object changed;
\* req.logIn regenerates the session, destroying the one the request carried.
\* A copy of the same cookie value now names the session created here.
Bind(c, i) ==
  /\ session' = [session EXCEPT ![c] = i]
  /\ IF variant = "part_001"
     THEN LET sid == FreshSid(c)
          IN /\ store' = [n \in Sids |->
                            IF n = sid THEN [user |-> i, expires |-> now + MaxAge]
                            ELSE IF jar[c].tk = Sid(n) THEN NoSession
                            ELSE store[n]]
             /\ jar' = [jar EXCEPT ![c] = [tk |-> Sid(sid),
                                           expires |-> now + MaxAge]]
             /\ UNCHANGED kept
     ELSE IF session[c] = i
     THEN UNCHANGED <<jar, store, kept>>
     ELSE /\ jar' = [jar EXCEPT ![c] = [tk |-> Signed(i),
                                        expires |-> now + MaxAge]]
          /\ kept' = [d \in Clients |->
                        IF kept[d].tk = Signed(i)
                        THEN [kept[d] EXCEPT !.created = now] ELSE kept[d]]
          /\ UNCHANGED store

\* req.session = null (cookie-session: the response expires the browser's
\* cookie) and req.logout(cb) (Passport: the session is regenerated, the one
\* the request carried is destroyed in the store).
Unbind(c) ==
  /\ session' = [session EXCEPT ![c] = NoUser]
  /\ jar' = [jar EXCEPT ![c] = NoCookie]
  /\ store' = [n \in Sids |-> IF jar[c].tk = Sid(n) THEN NoSession ELSE store[n]]
  /\ UNCHANGED kept

\* POST /login up to its User.findOne. An existing user is answered here;
\* Server.js goes on, for an unknown username, to hash the password and save
\* a new user (LoginSave).
Login(c, u, p) ==
  /\ pend[c].kind = "none"
  /\ UNCHANGED <<variant, now, users, tasks, created, reqs>>
  /\ IF variant = "Server"
     THEN IF ~ServerUsernameValid(u)
          THEN /\ resp' = AuthReply("login", c, u, 400,
                            "Username must be between 3 and 30 characters")
               /\ UNCHANGED <<session, jar, store, kept, pend>>
          ELSE IF FindByUsername(u) = {}
          THEN /\ pend' = [pend EXCEPT ![c] =
                             [NoPend EXCEPT !.kind = "login", !.username = u,
                                     !.password = p]]
               /\ resp' = NoResp
               /\ UNCHANGED <<session, jar, store, kept>>
          ELSE LET i == CHOOSE i \in FindByUsername(u) : TRUE
               IN IF Compare(p, users[i].passwordHash)
                  THEN /\ Bind(c, i)
                       /\ resp' = AuthReply("login", c, u, 302, "/dashboard")
                       /\ UNCHANGED pend
                  ELSE /\ resp' = AuthReply("login", c, u, 401,
                                    "Invalid username or password")
                       /\ UNCHANGED <<session, jar, store, kept, pend>>
     ELSE IF u = "" \/ p = ""
          THEN /\ resp' = AuthReply("login", c, u, 200,
                            "Please enter both username and password.")
               /\ UNCHANGED <<session, jar, store, kept, pend>>
          ELSE IF FindByUsername(u) = {}
          THEN /\ resp' = AuthReply("login", c, u, 200,
                            "Invalid username or password.")
               /\ UNCHANGED <<session, jar, store, kept, pend>>
          ELSE LET i == CHOOSE i \in FindByUsername(u) : TRUE
               IN IF variant = "part_001" /\ users[i].password = ""
                  THEN /\ resp' = AuthReply("login", c, u, 200,
                         "This account uses Google login. Please continue with Google.")
                       /\ UNCHANGED <<session, jar, store, kept, pend>>
                  ELSE IF users[i].password # p
                  THEN /\ resp' = AuthReply("login", c, u, 200,
                                    "Invalid username or password.")
                       /\ UNCHANGED <<session, jar, store, kept, pend>>
                  ELSE /\ Bind(c, i)
                       /\ resp' = AuthReply("login", c, u, 302, "/dashboard")
                       /\ UNCHANGED pend

\* The user.save() of the login of Server.js for a username its findOne did
\* not find. The save fails validation under the User schema that requires
\* an email (the login never sets one), fails on the unique index when the
\* username was taken in the meantime, and otherwise stores the new user and
\* logs the client in.
LoginSave(c) ==
  /\ variant = "Server"
  /\ pend[c].kind = "login"
  /\ pend' = [pend EXCEPT ![c] = NoPend]
  /\ UNCHANGED <<variant, now, tasks, created, reqs>>
  /\ LET u == pend[c].username
         p == pend[c].password
     IN \/ /\ resp' = AuthReply("login", c, u, 500, "Login failed. Try again.")
           /\ UNCHANGED <<users, session, jar, store, kept>>
        \/ IF FindByUsername(u) # {}
           THEN /\ resp' = AuthReply("login", c, u, 400, "Username already exists")
                /\ UNCHANGED <<users, session, jar, store, kept>>
           ELSE /\ users' = Append(users, UserDoc(u, p))
                /\ Bind(c, Len(users) + 1)
                /\ resp' = AuthReply("login", c, u, 302, "/dashboard")

\* POST /register up to its User.findOne.
RegisterFind(c, u, p) ==
  /\ variant # "Server"
  /\ pend[c].kind = "none"
  /\ IF u = "" \/ p = ""
     THEN /\ resp' = AuthReply("register", c, u, 200,
                       "Please choose a username and password.")
          /\ UNCHANGED pend
     ELSE IF FindByUsername(u) # {}
     THEN /\ resp' = AuthReply("register", c, u, 200, "Username already exists.")
          /\ UNCHANGED pend
     ELSE /\ pend' = [pend EXCEPT ![c] =
                        [NoPend EXCEPT !.kind = "register", !.username = u,
                                !.password = p]]
          /\ resp' = NoResp
  /\ UNCHANGED <<variant, now, users, session, jar, store, kept,
                 tasks, created, reqs>>

\* The User.create of POST /register and the session it opens; the unique
\* index refuses a username taken since the findOne.
RegisterCreate(c) ==
  /\ variant # "Server"
  /\ pend[c].kind = "register"
  /\ pend' = [pend EXCEPT ![c] = NoPend]
  /\ UNCHANGED <<variant, now, tasks, created, reqs>>
  /\ LET u == pend[c].username
         p == pend[c].password
     IN IF FindByUsername(u) # {}
        THEN /\ resp' = AuthReply("register", c, u, 200,
                          "Registration failed. Try again later.")
             /\ UNCHANGED <<users, session, jar, store, kept>>
        ELSE /\ users' = Append(users, UserDoc(u, p))
             /\ Bind(c, Len(users) + 1)
             /\ resp' = AuthReply("register", c, u, 302, "/dashboard")

\* POST /logout.
Logout(c) ==
  /\ pend[c].kind = "none"
  /\ Unbind(c)
  /\ resp' = AuthReply("logout", c, "", 302, "/login")
  /\ UNCHANGED <<variant, now, users, pend, tasks, created, reqs>>

\* GET /change-password, a page behind requireLogin / isLoggedIn, asked for by
\* the browser of c: it sends the cookie it holds.
Present(c) ==
  LET user == Resolve(jar[c].tk)
  IN /\ pend[c].kind = "none"
     /\ resp' = IF user = NoUser
                THEN AuthFailure("visit", "form", c, 0, <<>>, "")
                ELSE AuthReply("visit", c, users[user].username, 200, "")
     /\ store' = Touched(jar[c].tk)
     /\ UNCHANGED <<variant, now, users, session, jar, kept, pend, tasks,
                    created, reqs>>

\* The client of c copies the value of the cookie its browser holds.
Keep(c) ==
  /\ jar[c] # NoCookie
  /\ kept' = [kept EXCEPT ![c] = [tk |-> jar[c].tk,
                                  created |-> jar[c].expires - MaxAge]]
  /\ resp' = NoResp
  /\ UNCHANGED <<variant, now, users, session, jar, store, pend, tasks,
                 created, reqs>>

\* GET /change-password sent with the copied cookie value, whatever the age
\* of the cookie it was copied from.
Replay(c) ==
  LET user == Resolve(kept[c].tk)
  IN /\ kept[c] # NoKept
     /\ resp' = IF user = NoUser
                THEN AuthFailure("replay", "form", c, 0, <<>>, "")
                ELSE AuthReply("replay", c, users[user].username, 200, "")
     /\ store' = Touched(kept[c].tk)
     /\ UNCHANGED <<variant, now, users, session, jar, kept, pend, tasks,
                    created, reqs>>

\* Twelve hours pass. A browser drops a cookie as it expires, and its requests
\* carry no session from then on; MemoryStore deletes an expired session when
\* it is next read, which is the same store to every request as deleting it
\* now.
Tick ==
  /\ now < MaxTime
  /\ now' = now + 1
  /\ jar' = [c \in Clients |->
               IF jar[c].expires <= now + 1 THEN NoCookie ELSE jar[c]]
  /\ session' = [c \in Clients |->
                   IF jar[c].expires <= now + 1 THEN NoUser ELSE session[c]]
  /\ store' = [n \in Sids |->
                 IF store[n].expires <= now + 1 THEN NoSession ELSE store[n]]
  /\ resp' = NoResp
  /\ UNCHANGED <<variant, users, kept, pend, tasks, created, reqs>>

\* ------------------------------------------------------------ Google login
\* User.findOne({ googleId: profile.id }).
FindByGoogleId(g) == {i \in DOMAIN users : users[i].googleId = g}

\* fallbackUsername: the profile's first e-mail, else its displayName, else
\* google_<id>.
GoogleName(g) == CASE g = "g1" -> "google_g1" [] OTHER -> "google_"
FallbackUsername(prof) ==
  IF prof.email # "" THEN prof.email
  ELSE IF prof.displayName # "" THEN prof.displayName
  ELSE GoogleName(prof.id)

\* The answer to a Google login that failed in the verify callback: part_000
\* redirects to /login with the error; part_001 passes the error to next(),
\* and Express answers 500.
GoogleFailure(c, prof) ==
  IF variant = "part_000"
  THEN AuthReply("google", c, prof.id, 302, "Google login failed. Please try again.")
  ELSE AuthReply("google", c, prof.id, 500, "Internal Server Error")

\* GET /auth/google/callback with the profile Google vouches for, up to the
\* answer of User.findOne({ googleId }). A user found is logged in here, its
\* displayName filled from the profile when it has none.
GoogleFind(c, prof) ==
  /\ variant # "Server"
  /\ pend[c].kind = "none"
  /\ IF FindByGoogleId(prof.id) = {}
     THEN /\ resp' = NoResp
          /\ pend' = [pend EXCEPT ![c] =
                        [NoPend EXCEPT !.kind = "google",
                                       !.username = FallbackUsername(prof),
                                       !.googleId = prof.id,
                                       !.displayName = prof.displayName]]
          /\ UNCHANGED <<users, session, jar, store, kept>>
     ELSE LET i == CHOOSE i \in FindByGoogleId(prof.id) : TRUE
          IN /\ resp' = AuthReply("google", c, prof.id, 302, "/dashboard")
             /\ users' = IF users[i].displayName = "" /\ prof.displayName # ""
                         THEN [users EXCEPT ![i].displayName = prof.displayName]
                         ELSE users
             /\ Bind(c, i)
             /\ UNCHANGED pend
  /\ UNCHANGED <<variant, now, tasks, created, reqs>>

\* The User.create of the verify callback; the unique indexes on username
\* and on googleId refuse a duplicate.
GoogleUpsert(c) ==
  /\ variant # "Server"
  /\ pend[c].kind = "google"
  /\ pend' = [pend EXCEPT ![c] = NoPend]
  /\ UNCHANGED <<variant, now, tasks, created, reqs>>
  /\ LET q == pend[c]
         doc == [username |-> q.username, password |-> "",
                 passwordHash |-> <<>>, googleId |-> q.googleId,
                 displayName |-> IF q.displayName # ""
                                 THEN q.displayName ELSE q.username]
     IN /\ resp' = AuthReply("google", c, q.googleId, 302, "/dashboard")
        /\ IF FindByUsername(q.username) # {}
           THEN LET i == CHOOSE i \in FindByUsername(q.username) : TRUE
                IN /\ users' = [users EXCEPT ![i] = doc]
                   /\ Bind(c, i)
           ELSE /\ users' = Append(users, doc)
                /\ Bind(c, Len(users) + 1)
\* A create over a users collection whose googleId index is not unique.
GoogleCreateNoIndex(c) ==
  /\ variant # "Server"
  /\ pend[c].kind = "google"
  /\ pend' = [pend EXCEPT ![c] = NoPend]
  /\ LET q == pend[c]
         prof == [id |-> q.googleId, email |-> "", displayName |-> q.displayName]
     IN IF FindByUsername(q.username) # {}
        THEN /\ resp' = GoogleFailure(c, prof)
             /\ UNCHANGED <<users, session, jar, store, kept>>
        ELSE /\ users' = Append(users,
                           [username |-> q.username, password |-> "",
                            passwordHash |-> <<>>, googleId |-> q.googleId,
                            displayName |-> IF q.displayName # ""
                                            THEN q.displayName ELSE q.username])
             /\ Bind(c, Len(users) + 1)
             /\ resp' = AuthReply("google", c, q.googleId, 302, "/dashboard")
  /\ UNCHANGED <<variant, now, tasks, created, reqs>>

GoogleCreate(c) ==
  /\ variant # "Server"
  /\ pend[c].kind = "google"
  /\ pend' = [pend EXCEPT ![c] = NoPend]
  /\ LET q == pend[c]
         prof == [id |-> q.googleId, email |-> "", displayName |-> q.displayName]
     IN IF FindByUsername(q.username) # {} \/ FindByGoogleId(q.googleId) # {}
        THEN /\ resp' = GoogleFailure(c, prof)
             /\ UNCHANGED <<users, session, jar, store, kept>>
        ELSE /\ users' = Append(users,
                           [username |-> q.username, password |-> "",
                            passwordHash |-> <<>>, googleId |-> q.googleId,
                            displayName |-> IF q.displayName # ""
                                            THEN q.displayName ELSE q.username])
             /\ Bind(c, Len(users) + 1)
             /\ resp' = AuthReply("google", c, q.googleId, 302, "/dashboard")
  /\ UNCHANGED <<variant, now, tasks, created, reqs>>

\* A change of password that asks only for a session and an existing user.
ChangePasswordFindAny(c, u, old, new) ==
  /\ pend[c].kind = "none"
  /\ UNCHANGED <<variant, now, users, session, jar, store, kept,
                 tasks, created, reqs>>
  /\ IF session[c] = NoUser \/ FindByUsername(u) = {} \/ new = ""
     THEN /\ resp' = AuthReply("chpw", c, u, 302, "/login")
          /\ UNCHANGED pend
     ELSE /\ pend' = [pend EXCEPT ![c] =
                        [NoPend EXCEPT !.kind = "chpw", !.username = u,
                                       !.password = new]]
          /\ resp' = NoResp

\* -------------------------------------------------------- change password
\* POST /change-password up to the answer of User.findOne, with every check
\* the handler makes on the user it read.
ChangePasswordFind(c, u, old, new) ==
  /\ pend[c].kind = "none"
  /\ UNCHANGED <<variant, now, users, session, jar, store, kept,
                 tasks, created, reqs>>
  /\ LET answer(code, msg) ==
           /\ resp' = AuthReply("chpw", c, u, code, msg)
           /\ UNCHANGED pend
         proceed ==
           /\ pend' = [pend EXCEPT ![c] =
                         [NoPend EXCEPT !.kind = "chpw", !.username = u,
                                        !.password = new]]
           /\ resp' = NoResp
     IN IF session[c] = NoUser
        THEN answer(302, "/login")
        ELSE IF variant = "Server"
        THEN IF ~ServerUsernameValid(u)
             THEN answer(302, "Username must be between 3 and 30 characters")
             ELSE IF new = old
             THEN answer(302, "New password must be different from old password")
             ELSE IF FindByUsername(u) = {}
             THEN answer(302, "Username not found")
             ELSE LET i == CHOOSE i \in FindByUsername(u) : TRUE
                  IN IF ~Compare(old, users[i].passwordHash)
                     THEN answer(302, "Old password is incorrect")
                     ELSE IF i # session[c]
                     THEN answer(302, "You can only change your own password")
                     ELSE proceed
        ELSE IF u = "" \/ old = "" \/ new = ""
             THEN answer(302, "All fields are required")
             ELSE IF FindByUsername(u) = {} \/ FindByUsername(u) # {session[c]}
             THEN answer(302, "You can only change your own password")
             ELSE IF users[session[c]].password = ""
             THEN answer(302, "Google accounts cannot change password here")
             ELSE IF users[session[c]].password # old
             THEN answer(302, "Old password is incorrect")
             ELSE proceed

\* user.save() of POST /change-password: the new password (its hash in
\* Server.js) is written to the user read before.
ChangePasswordSave(c) ==
  /\ pend[c].kind = "chpw"
  /\ pend' = [pend EXCEPT ![c] = NoPend]
  /\ UNCHANGED <<variant, now, session, jar, store, kept, tasks, created, reqs>>
  /\ LET i == CHOOSE i \in FindByUsername(pend[c].username) : TRUE
     IN /\ users' = IF variant = "Server"
                    THEN [users EXCEPT ![i].passwordHash = Hash(pend[c].password)]
                    ELSE [users EXCEPT ![i].password = pend[c].password]
        /\ resp' = AuthReply("chpw", c, pend[c].username, 302,
                             "Password changed successfully")

\* ------------------------------------------------------ the input values
\* A request body with no field; userId is a field no handler reads (NoUser:
\* the body has none).
Blank == [title |-> Undef, description |-> Undef, priority |-> Undef,
          deadline |-> NoDeadline, status |-> Undef, userId |-> NoUser]
CreateBodies == {[Blank EXCEPT !.title = "Buy milk"]}
UpdateBodies == {[Blank EXCEPT !.status = "done"]}
StatusInputs == {"pending", "done"}
Routes == {"api", "form"}
LoggedIn == {"c1", "c2"}
RECURSIVE SeqsUpTo(_, _)
SeqsUpTo(S, n) ==
  IF n = 0 THEN {<<>>}
  ELSE LET shorter == SeqsUpTo(S, n - 1)
       IN shorter \cup {Append(s, x) : s \in shorter, x \in S}

\* The store after two registrations: client c1 carries the session of user
\* 1 (alice), c2 that of user 2 (bob), c3 no session; no task yet.
Init ==
  /\ variant \in Variants
  /\ users = <<UserDoc("alice", "pw1"), UserDoc("bob", "pw2")>>
  /\ session = [c \in Clients |->
                  IF c = "c1" THEN 1 ELSE IF c = "c2" THEN 2 ELSE NoUser]
  /\ pend = [c \in Clients |-> NoPend]
  /\ tasks = [t \in 1..MaxTasks |-> NoTask]
  /\ created = 0
  /\ reqs = [r \in Reqs |-> IdleReq]
  /\ resp = NoResp
  /\ now = 0
  /\ jar = [c \in Clients |->
             IF session[c] = NoUser THEN NoCookie
             ELSE [tk |-> IF variant = "part_001" THEN Sid(session[c])
                          ELSE Signed(session[c]),
                   expires |-> MaxAge]]
  /\ store = [n \in Sids |->
               IF variant = "part_001" /\ n \in DOMAIN users
               THEN [user |-> n, expires |-> MaxAge] ELSE NoSession]
  /\ kept = [c \in Clients |-> NoKept]

\* No reorder request is between its check and its answer.
Quiet == \A r \in Reqs : reqs[r].phase # "writing"

\* ------------------------------------------- requests served one at a time
\* Every task operation of every client, each request answered before the
\* next is taken.
Next ==
  \/ \E c \in Clients, route \in Routes : Quiet /\ ListTasks(c, route)
  \/ \E c \in Clients, route \in Routes, b \in CreateBodies :
       Quiet /\ CreateTask(c, route, b)
  \/ \E c \in Clients, id \in TaskIds \cup {MalformedId}, b \in UpdateBodies :
       Quiet /\ UpdateTask(c, id, b)
  \/ \E c \in Clients, id \in TaskIds \cup {MalformedId}, st \in StatusInputs :
       Quiet /\ StatusTask(c, id, st)
  \/ \E c \in Clients, route \in Routes, id \in TaskIds \cup {MalformedId} :
       Quiet /\ DeleteTask(c, route, id)
  \/ \E c \in Clients : Quiet /\ ReorderNotArray(c)
  \/ \E c \in Clients, ids \in SeqsUpTo(TaskIds \cup {MalformedId}, MaxLen) :
       Quiet /\ ReorderStart(c, ids)
  \/ \E r \in Reqs, i \in 1..MaxLen : ReorderWrite(r, i)
  \/ \E r \in Reqs : ReorderRespond(r)

Spec == Init /\ [][Next]_vars

\* ----------------------------------------------------- requests interleaved
\* The API requests of the logged-in clients, a request taken while others
\* are between their store calls.
ConcNext ==
  \/ \E c \in LoggedIn, b \in CreateBodies : CreateTask(c, "api", b)
  \/ \E c \in LoggedIn, id \in TaskIds : DeleteTask(c, "api", id)
  \/ \E c \in LoggedIn, ids \in SeqsUpTo(TaskIds, MaxLen) : ReorderStart(c, ids)
  \/ \E r \in Reqs, i \in 1..MaxLen : ReorderWrite(r, i)
  \/ \E r \in Reqs : ReorderRespond(r)

ConcSpec == Init /\ [][ConcNext]_vars

\* ------------------------------------------------------------ the accounts
UsernameInputs == Usernames \cup {""}
PasswordInputs == Passwords \cup {""}
AuthClients == {"c1", "c2"}
\* The profiles Google may vouch for: no name and no e-mail; a displayName
\* that is also a username; an e-mail address that is also a username (the
\* register route accepts any non-empty string as a username).
GoogleProfiles ==
  {[id |-> "g1", email |-> "", displayName |-> ""],
   [id |-> "g1", email |-> "", displayName |-> "alice"],
   [id |-> "g1", email |-> "bob", displayName |-> "Gina"]}

\* An empty store and no session.
AuthInit ==
  /\ variant \in Variants
  /\ users = <<>>
  /\ session = [c \in Clients |-> NoUser]
  /\ pend = [c \in Clients |-> NoPend]
  /\ tasks = [t \in 1..MaxTasks |-> NoTask]
  /\ created = 0
  /\ reqs = [r \in Reqs |-> IdleReq]
  /\ resp = NoResp
  /\ now = 0
  /\ jar = [c \in Clients |-> NoCookie]
  /\ store = [n \in Sids |-> NoSession]
  /\ kept = [c \in Clients |-> NoKept]

\* Login, registration, Google login and logout requests of two browsers,
\* interleaved at their store calls.
AuthNext ==
  \/ \E c \in AuthClients, u \in UsernameInputs, p \in PasswordInputs :
       Login(c, u, p)
  \/ \E c \in AuthClients : LoginSave(c)
  \/ \E c \in AuthClients, u \in UsernameInputs, p \in PasswordInputs :
       RegisterFind(c, u, p)
  \/ \E c \in AuthClients : RegisterCreate(c)
  \/ \E c \in AuthClients : Logout(c)
  \/ \E c \in AuthClients, prof \in GoogleProfiles : GoogleFind(c, prof)
  \/ \E c \in AuthClients : GoogleCreate(c)

AuthSpec == AuthInit /\ [][AuthNext]_vars

\* Every request that creates a user or writes a credential: registration,
\* the logins (that of Server.js creates users), Google login and
\* change-password, of two browsers, interleaved at their store calls.
PasswordNext ==
  \/ \E c \in AuthClients, u \in Usernames : Login(c, u, "pw1")
  \/ \E c \in AuthClients : LoginSave(c)
  \/ \E c \in AuthClients, u \in Usernames : RegisterFind(c, u, "pw1")
  \/ \E c \in AuthClients : RegisterCreate(c)
  \/ \E c \in AuthClients : Logout(c)
  \/ \E c \in AuthClients, prof \in GoogleProfiles : GoogleFind(c, prof)
  \/ \E c \in AuthClients : GoogleCreate(c)
  \/ \E c \in AuthClients, u \in UsernameInputs,
        old \in Passwords, new \in PasswordInputs :
       ChangePasswordFind(c, u, old, new)
  \/ \E c \in AuthClients : ChangePasswordSave(c)

PasswordSpec == AuthInit /\ [][PasswordNext]_vars


\* ---------------------------------------------------- the fields of a task
\* Bodies of POST /api/tasks: a title alone, with a deadline, with a status
\* (which the handler does not read).
FieldCreateBodies ==
  {[Blank EXCEPT !.title = "Buy milk"],
   [Blank EXCEPT !.title = "Buy milk", !.deadline = 1],
   [Blank EXCEPT !.title = "Buy milk", !.status = "done"]}
\* Bodies of PUT /api/tasks/:id, one field each.
FieldUpdateBodies ==
  {[Blank EXCEPT !.title = "Pay rent"],
   [Blank EXCEPT !.priority = "high"],
   [Blank EXCEPT !.deadline = 0],
   [Blank EXCEPT !.status = "archived"]}
\* The status field of POST /tasks/:id/status.
FieldStatusInputs == {"pending", "done", "archived"}

\* The task routes of two logged-in clients with bodies that set each field,
\* each request answered before the next is taken.
FieldNext ==
  \/ \E c \in LoggedIn : ListTasks(c, "api")
  \/ \E c \in LoggedIn, b \in FieldCreateBodies : CreateTask(c, "api", b)
  \/ \E c \in LoggedIn, id \in TaskIds, b \in FieldUpdateBodies :
       UpdateTask(c, id, b)
  \/ \E c \in LoggedIn, id \in TaskIds, st \in FieldStatusInputs :
       StatusTask(c, id, st)

FieldSpec == Init /\ [][FieldNext]_vars

\* Bodies of POST /api/tasks with no deadline and with two different ones.
SortCreateBodies ==
  {[Blank EXCEPT !.title = "Buy milk"],
   [Blank EXCEPT !.title = "Buy milk", !.deadline = 1],
   [Blank EXCEPT !.title = "Buy milk", !.deadline = 2]}

\* Creating dated and undated tasks, reordering them and listing them.
SortNext ==
  \/ \E c \in LoggedIn : Quiet /\ ListTasks(c, "api")
  \/ \E c \in LoggedIn, b \in SortCreateBodies : Quiet /\ CreateTask(c, "api", b)
  \/ \E c \in LoggedIn, ids \in SeqsUpTo(TaskIds, MaxLen) :
       Quiet /\ ReorderStart(c, ids)
  \/ \E r \in Reqs, i \in 1..MaxLen : ReorderWrite(r, i)
  \/ \E r \in Reqs : ReorderRespond(r)

SortSpec == Init /\ [][SortNext]_vars

\* ------------------------------------------------ bodies out of range
\* Bodies of POST /api/tasks: no title, an empty one, one of 201 characters,
\* a description of 2001 characters, a priority outside the enum, a null
\* title, and a valid body.
BadCreateBodies ==
  {Blank,
   [Blank EXCEPT !.title = ""],
   [Blank EXCEPT !.title = "T201"],
   [Blank EXCEPT !.title = "Buy milk", !.description = "D2001"],
   [Blank EXCEPT !.title = "Buy milk", !.priority = "urgent"],
   [Blank EXCEPT !.title = Null],
   [Blank EXCEPT !.title = "Buy milk"]}
\* Bodies of PUT /api/tasks/:id, one field each.
BadUpdateBodies ==
  {[Blank EXCEPT !.title = ""],
   [Blank EXCEPT !.title = "T201"],
   [Blank EXCEPT !.description = "D2001"],
   [Blank EXCEPT !.priority = "urgent"],
   [Blank EXCEPT !.title = Null]}
BadStatusInputs == {"done", Null}
BodyClients == {"c1"}

\* Every task operation of one logged-in client with bodies whose fields are
\* missing, out of range or null, each request answered before the next.
BodyNext ==
  \/ \E c \in BodyClients : Quiet /\ ListTasks(c, "api")
  \/ \E c \in BodyClients, b \in BadCreateBodies : Quiet /\ CreateTask(c, "api", b)
  \/ \E c \in BodyClients, id \in TaskIds, b \in BadUpdateBodies :
       Quiet /\ UpdateTask(c, id, b)
  \/ \E c \in BodyClients, id \in TaskIds, st \in BadStatusInputs :
       Quiet /\ StatusTask(c, id, st)
  \/ \E c \in BodyClients, id \in TaskIds : Quiet /\ DeleteTask(c, "api", id)
  \/ \E c \in BodyClients : Quiet /\ ReorderNotArray(c)
  \/ \E c \in BodyClients, ids \in SeqsUpTo(TaskIds, MaxLen) :
       Quiet /\ ReorderStart(c, ids)
  \/ \E r \in Reqs, i \in 1..MaxLen : ReorderWrite(r, i)
  \/ \E r \in Reqs : ReorderRespond(r)

BodySpec == Init /\ [][BodyNext]_vars

\* ------------------------------------------------- bodies naming an owner
\* Bodies that carry a userId next to their fields: the id of bob in a create
\* and in a retitling update, the id of alice in an update of the status.
OwnerCreateBodies == {[Blank EXCEPT !.title = "Buy milk", !.userId = 2]}
OwnerUpdateBodies ==
  {[Blank EXCEPT !.title = "Pay rent", !.userId = 2],
   [Blank EXCEPT !.status = "done", !.userId = 1]}

\* The task operations of two logged-in clients and of one without a
\* session, with such bodies, each request answered before the next.
OwnerNext ==
  \/ \E c \in Clients, b \in OwnerCreateBodies : Quiet /\ CreateTask(c, "api", b)
  \/ \E c \in Clients, id \in TaskIds, b \in OwnerUpdateBodies :
       Quiet /\ UpdateTask(c, id, b)
  \/ \E c \in Clients, id \in TaskIds, st \in StatusInputs :
       Quiet /\ StatusTask(c, id, st)
  \/ \E c \in Clients, id \in TaskIds : Quiet /\ DeleteTask(c, "api", id)
  \/ \E c \in Clients, ids \in SeqsUpTo(TaskIds, MaxLen) :
       Quiet /\ ReorderStart(c, ids)
  \/ \E r \in Reqs, i \in 1..MaxLen : ReorderWrite(r, i)
  \/ \E r \in Reqs : ReorderRespond(r)

OwnerSpec == Init /\ [][OwnerNext]_vars

\* ------------------------------------------------------- the store failing
\* Creates and reorders of the logged-in clients over a store whose writes
\* may fail, a request taken only when no reorder awaits its writes.
FailNext ==
  \/ \E c \in LoggedIn, b \in CreateBodies : Quiet /\ CreateTask(c, "api", b)
  \/ \E c \in LoggedIn, ids \in SeqsUpTo(TaskIds, MaxLen) :
       Quiet /\ ReorderStart(c, ids)
  \/ \E r \in Reqs, i \in 1..MaxLen : ReorderWrite(r, i)
  \/ \E r \in Reqs : ReorderRespond(r)
  \/ \E c \in LoggedIn, ids \in SeqsUpTo(TaskIds, MaxLen), i \in 1..MaxLen :
       \E done \in SUBSET (1..MaxLen) : Quiet /\ ReorderFailed(c, ids, i, done)

FailSpec == Init /\ [][FailNext]_vars

\* ---------------------------------------------------- sessions over time
\* Two registered users, nobody logged in.
SessionInit ==
  /\ variant \in Variants
  /\ users = <<UserDoc("alice", "pw1"), UserDoc("bob", "pw2")>>
  /\ session = [c \in Clients |-> NoUser]
  /\ pend = [c \in Clients |-> NoPend]
  /\ tasks = [t \in 1..MaxTasks |-> NoTask]
  /\ created = 0
  /\ reqs = [r \in Reqs |-> IdleReq]
  /\ resp = NoResp
  /\ now = 0
  /\ jar = [c \in Clients |-> NoCookie]
  /\ store = [n \in Sids |-> NoSession]
  /\ kept = [c \in Clients |-> NoKept]

\* One browser logs in and out and asks for a page, its user copies and
\* replays the cookie, and time passes.
SessionClients == {"c1"}
SessionNext ==
  \/ \E c \in SessionClients, u \in Usernames, p \in Passwords : Login(c, u, p)
  \/ \E c \in SessionClients : Logout(c)
  \/ \E c \in SessionClients : Present(c)
  \/ \E c \in SessionClients : Keep(c)
  \/ \E c \in SessionClients : Replay(c)
  \/ Tick

SessionSpec == SessionInit /\ [][SessionNext]_vars

\* ================================================================ claims
\* The principal of client c, and whether task id t is one c does not own:
\* it does not exist, or it is another user's.
Principal(c) == session[c]
NotOwned(c, t) == ~Exists(t) \/ tasks[t].userId # Principal(c)
OthersTask(c, t) == Exists(t) /\ tasks[t].userId # Principal(c)
IsNotFound(r) == r.msg = "Task not found" /\ r.code \in {404, 302}
\* The subsequence of l made of the elements of S.
Restrict(l, S) == SelectSeq(l, LAMBDA x : x \in S)

\* C1: ownership isolation. For a logged-in client c and a task t of another
\* principal: a list answered to c never holds t, and an update, a status
\* change or a delete that c asks of t is answered NotFound and leaves t as
\* it was (unchanged and present).
C1_OwnershipIsolation ==
  [][\A c \in Clients, t \in TaskIds :
       (Principal(c) # NoUser /\ OthersTask(c, t)) =>
         /\ (resp'.op = "list" /\ resp'.c = c /\ resp'.code = 200)
              => t \notin Range(resp'.list)
         /\ (resp'.op \in {"update", "status", "delete"}
               /\ resp'.c = c /\ resp'.id = t)
              => (IsNotFound(resp') /\ tasks'[t] = tasks[t])]_vars

\* C1 witness: a delete or update by a logged-in client of another
\* principal's task was just answered NotFound, the task still present.
C1_Witness ==
  /\ resp.op \in {"update", "delete"}
  /\ resp.id \in TaskIds
  /\ Principal(resp.c) # NoUser
  /\ OthersTask(resp.c, resp.id)
  /\ IsNotFound(resp)

\* Whether the step is the ownership check of a reorder request of client c
\* for the list ids: it answers at once (resp'.req = 0), or it starts the
\* writes of a request slot.
ReorderChecked(c, ids) ==
  \/ resp'.op = "reorder" /\ resp'.req = 0 /\ resp'.c = c /\ resp'.ids = ids
  \/ \E r \in Reqs : /\ reqs[r].phase # "writing"
                     /\ reqs'[r].phase = "writing"
                     /\ reqs'[r].c = c /\ reqs'[r].ids = ids

\* C2: reorder is all-or-nothing. When the list of a reorder request of a
\* logged-in client holds an id that does not exist or is not the client's,
\* the request is answered Forbidden (403), starts no write, and every task
\* (so every order value, of every owner) is as before.
C2_ReorderAllOrNothing ==
  [][\A c \in Clients, ids \in SeqsUpTo(TaskIds, MaxLen) :
       (/\ Principal(c) # NoUser
        /\ ReorderChecked(c, ids)
        /\ \E i \in DOMAIN ids : NotOwned(c, ids[i]))
       => /\ resp'.op = "reorder" /\ resp'.code = 403
          /\ tasks' = tasks
          /\ reqs' = reqs]_vars

\* C2 witness: a reorder naming one task of the caller and one of another
\* owner was just answered 403.
C2_Witness ==
  /\ resp.op = "reorder" /\ resp.code = 403
  /\ \E i, j \in DOMAIN resp.ids :
       /\ Exists(resp.ids[i]) /\ tasks[resp.ids[i]].userId = Principal(resp.c)
       /\ OthersTask(resp.c, resp.ids[j])

\* C3: a successful reorder (p, <<t0, ..., tn-1>>), served with no other
\* request in between, leaves order of ti = i for every i, and the list
\* answered to p right after holds those tasks in exactly the given sequence.
C3_ReorderThenList ==
  /\ [](resp.op = "reorder" /\ resp.code = 200
          => \A i \in DOMAIN resp.ids :
               Exists(resp.ids[i]) /\ tasks[resp.ids[i]].order = i - 1)
  /\ [][(/\ resp.op = "reorder" /\ resp.code = 200
         /\ resp'.op = "list" /\ resp'.code = 200 /\ resp'.c = resp.c)
        => Restrict(resp'.list, Range(resp.ids)) = resp.ids]_vars

\* C3 witness: a reorder that reverses the creation order of two tasks was
\* just answered Ok.
C3_Witness ==
  /\ resp.op = "reorder" /\ resp.code = 200
  /\ Len(resp.ids) >= 2
  /\ resp.ids[1] > resp.ids[2]

\* C4 (the claim as stated): after two reorder requests of the same owner
\* over the same set of tasks have both been answered, the order values of
\* those tasks are exactly the indices of one of the two lists.
C4_LastAppliedWins ==
  \A r1, r2 \in Reqs :
    (/\ r1 # r2
     /\ reqs[r1].phase = "done" /\ reqs[r2].phase = "done"
     /\ reqs[r1].userId = reqs[r2].userId
     /\ Range(reqs[r1].ids) = Range(reqs[r2].ids)
     /\ \A t \in Range(reqs[r1].ids) : Exists(t))
    => \/ \A i \in DOMAIN reqs[r1].ids :
            tasks[reqs[r1].ids[i]].order = i - 1
       \/ \A i \in DOMAIN reqs[r2].ids :
            tasks[reqs[r2].ids[i]].order = i - 1

\* C5 (the claim as stated): a reorder that is answered Ok has set
\* order = index for every id of its list.
C5_OkMeansApplied ==
  (resp.op = "reorder" /\ resp.code = 200)
    => \A i \in DOMAIN resp.ids :
         Exists(resp.ids[i]) /\ tasks[resp.ids[i]].order = i - 1

\* C6: reorders of different owners never interact. A step of a reorder
\* request of principal p (its check, any of its writes, its answer), under
\* any interleaving, leaves every task of every other principal as it was.
C6_ReorderFrame ==
  [][/\ resp'.op = "reorder" => tasks' = tasks
     /\ \A r \in Reqs :
          (/\ reqs[r].phase = "writing" /\ reqs'[r].phase = "writing"
           /\ reqs'[r].pending # reqs[r].pending)
          => \A t \in TaskIds :
               (Exists(t) /\ tasks[t].userId # reqs[r].userId)
                 => tasks'[t] = tasks[t]]_vars

\* C6 witness: reorder requests of two different owners are in flight at
\* once, each with a write applied.
C6_Witness ==
  \E r1, r2 \in Reqs :
    /\ reqs[r1].phase = "writing" /\ reqs[r2].phase = "writing"
    /\ reqs[r1].userId # reqs[r2].userId
    /\ reqs[r1].pending # DOMAIN reqs[r1].ids
    /\ reqs[r2].pending # DOMAIN reqs[r2].ids

\* C7: no existence oracle. The answer to an update, status change or delete
\* of a task id the caller does not own is NotFound whether the id does not
\* exist or is another owner's, and the answer to a reorder naming such an
\* id is Forbidden in both cases: the same status and the same message.
C7_NoExistenceOracle ==
  [][\A c \in Clients, t \in TaskIds :
       (Principal(c) # NoUser /\ NotOwned(c, t)) =>
         /\ (resp'.op \in {"update", "status", "delete"}
               /\ resp'.c = c /\ resp'.id = t)
              => /\ resp'.msg = "Task not found"
                 /\ resp'.code = IF resp'.route = "api" \/ variant = "Server"
                                 THEN 404 ELSE 302
         /\ (resp'.op = "reorder" /\ resp'.req = 0 /\ resp'.c = c
               /\ t \in Range(resp'.ids)
               /\ MalformedId \notin Range(resp'.ids))
              => /\ resp'.msg = "Some tasks not found or unauthorized"
                 /\ resp'.code = 403]_vars

\* C7 witness: a delete of an id that does not exist was just answered
\* NotFound to a client who, in the same state, could name a task of
\* another owner.
C7_Witness ==
  /\ resp.op = "delete" /\ IsNotFound(resp)
  /\ resp.id \in TaskIds /\ ~Exists(resp.id)
  /\ Principal(resp.c) # NoUser
  /\ \E t \in TaskIds : OthersTask(resp.c, t)

\* C8 (the claim as stated): a task operation asked without a session is
\* refused with the authentication-required error: 401 on the /api/ routes,
\* the redirect to /login on the form routes.
C8_AuthRequired ==
  (resp.op \in {"list", "create", "update", "status", "delete", "reorder"}
     /\ Principal(resp.c) = NoUser)
    => IF resp.route = "api"
       THEN resp.code = 401 /\ resp.msg = "Authentication required"
       ELSE resp.code = 302 /\ resp.msg = "/login"

\* Whether the username u belongs to a user.
NameTaken(u) == \E i \in DOMAIN users : users[i].username = u

\* What a refused registration leaves alone: the users (so every credential),
\* every session, and no create left to run.
RegisterRefused == users' = users /\ session' = session /\ pend' = pend

\* C9: a registration under a username that belongs to a user is answered
\* "Username already exists." whatever (non-empty) password the form carries;
\* and with any password, the empty one included, it creates no user, changes
\* no credential, opens no session and leaves no create to run.
C9_UsernameTaken ==
  [][\A u \in Usernames :
       NameTaken(u)
         => \A c \in Clients, p \in PasswordInputs :
              RegisterFind(c, u, p)
                => /\ RegisterRefused
                   /\ resp'.op = "register" /\ resp'.code = 200
                   /\ p # "" => resp'.msg = "Username already exists."]_vars

\* C9 witness: a registration was just answered "Username already exists."
\* to a client that holds no session of the user of that name.
C9_Witness ==
  /\ resp.op = "register" /\ resp.msg = "Username already exists."
  /\ \E i \in DOMAIN users :
       users[i].username = resp.name /\ session[resp.c] # i

\* C10 (the claim as stated): a login never creates a user, and a login
\* under a username that belongs to no user fails and opens no session.
C10_LoginCreatesNoIdentity ==
  [][resp'.op = "login"
       => /\ users' = users
          /\ ~NameTaken(resp'.name)
               => (resp'.code # 302 /\ session' = session)]_vars

\* The two failures of a local login, as the login page shows them.
InvalidCredentials(r) ==
  r.msg \in {"Invalid username or password.", "Invalid username or password"}
WrongAuthMethod(r) ==
  r.msg = "This account uses Google login. Please continue with Google."
\* Whether user i has a password credential.
HasPassword(i) == users[i].password # "" \/ users[i].passwordHash # <<>>
\* Whether the password p is the one stored for user i.
PasswordOf(i, p) ==
  IF variant = "Server" THEN users[i].passwordHash = Hash(p)
  ELSE users[i].password = p

\* C11 (the claim as stated): a local login with a non-empty username and
\* password is answered InvalidCredentials when no user has the username,
\* WrongAuthMethod when the user has no password credential,
\* InvalidCredentials when the password is not the user's, each leaving
\* every session and user as they were; and with the user's password it
\* puts that user's id in the client's session.
C11_LoginOutcome ==
  [][\A c \in Clients, u \in Usernames, p \in Passwords :
       Login(c, u, p) =>
         IF ~NameTaken(u)
         THEN InvalidCredentials(resp') /\ session' = session /\ users' = users
         ELSE LET i == CHOOSE i \in DOMAIN users : users[i].username = u
              IN IF ~HasPassword(i)
                 THEN WrongAuthMethod(resp') /\ session' = session
                 ELSE IF ~PasswordOf(i, p)
                 THEN InvalidCredentials(resp') /\ session' = session
                 ELSE resp'.code = 302 /\ session' = [session EXCEPT ![c] = i]]_vars

\* C14 (the claim as stated): a Google login for a subject id no user
\* carries adds exactly one user, with no password, that googleId, and the
\* profile's displayName (the fallback username when the profile has none),
\* and changes no other user; a Google login for a subject id some user
\* carries changes nothing of any user but that user's displayName, and that
\* only when it was unset.
C14_GoogleLogin ==
  [][/\ \A c \in Clients :
          (GoogleCreate(c) /\ FindByGoogleId(pend[c].googleId) = {})
            => /\ Len(users') = Len(users) + 1
               /\ SubSeq(users', 1, Len(users)) = users
               /\ LET new == users'[Len(users')]
                  IN /\ new.password = "" /\ new.passwordHash = <<>>
                     /\ new.googleId = pend[c].googleId
                     /\ new.displayName # ""
                     /\ new.displayName \in {pend[c].displayName, pend[c].username}
                     /\ pend[c].displayName # ""
                          => new.displayName = pend[c].displayName
     /\ \A c \in Clients, prof \in GoogleProfiles :
          (GoogleFind(c, prof) /\ FindByGoogleId(prof.id) # {})
            => /\ Len(users') = Len(users)
               /\ \A i \in DOMAIN users :
                    \/ users'[i] = users[i]
                    \/ /\ users[i].googleId = prof.id
                       /\ users[i].displayName = ""
                       /\ users'[i] = [users[i] EXCEPT
                                         !.displayName = prof.displayName]]_vars

\* C15: no step of a Google login, whatever the profile's e-mail and
\* displayName, changes a user that has a password, or puts the id of such a
\* user in the session of the client logging in.
C15_GoogleNeverTakesOver ==
  [][\A c \in Clients :
       (GoogleCreate(c) \/ \E prof \in GoogleProfiles : GoogleFind(c, prof))
         => \A i \in DOMAIN users :
              HasPassword(i)
                => /\ users'[i] = users[i]
                   /\ session'[c] = i => session[c] = i]_vars

\* C15 witness: a Google login whose derived username is that of a user with
\* a password was just refused (no user carries the subject id).
C15_Witness ==
  /\ resp.op = "google" /\ resp.msg # "/dashboard"
  /\ FindByGoogleId(resp.name) = {}
  /\ \E i \in DOMAIN users :
       HasPassword(i) /\ users[i].username \in {"alice", "bob"}

\* C16: in every reachable state every user has a way to log in: a stored
\* password (its hash in Server.js) or a googleId.
C16_AuthPath ==
  \A i \in DOMAIN users :
    \/ users[i].password # ""
    \/ users[i].passwordHash # <<>>
    \/ users[i].googleId # ""

\* C16 witness: a password was just changed in a store that holds a Google
\* user and a user with a password.
C16_Witness ==
  /\ resp.op = "chpw" /\ resp.msg = "Password changed successfully"
  /\ \E i, j \in DOMAIN users :
       /\ users[i].googleId # "" /\ users[i].password = ""
       /\ users[j].googleId = "" /\ users[j].password # ""


\* The order the specification gives a list: order ascending, ties by deadline
\* ascending, a task without a deadline after every dated one.
DeadlineLeq(a, b) ==
  \/ tasks[b].deadline = 0
  \/ tasks[a].deadline # 0 /\ tasks[a].deadline <= tasks[b].deadline
SpecLeq(a, b) ==
  \/ tasks[a].order < tasks[b].order
  \/ tasks[a].order = tasks[b].order /\ DeadlineLeq(a, b)

\* C17: a list answered to principal p holds exactly the tasks p owns, each
\* once, sorted by order ascending, ties by deadline ascending, tasks without
\* a deadline last.
C17_ListSorted ==
  (resp.op = "list" /\ resp.code = 200) =>
    LET l == resp.list
        mine == {t \in DOMAIN tasks : Exists(t) /\ tasks[t].userId = session[resp.c]}
    IN /\ Range(l) = mine
       /\ Len(l) = Cardinality(mine)
       /\ \A i, j \in DOMAIN l : i < j => SpecLeq(l[i], l[j])


\* C18: a create by principal p stores one task owned by p with order 0 and
\* status pending, whatever status the body carries, and with priority medium
\* when the body names none; every other task is unchanged, and the new task is
\* in what a list returns to p and in what it returns to nobody else.
C18_CreateDefaults ==
  [][\A c \in LoggedIn, b \in FieldCreateBodies :
       CreateTask(c, "api", b) =>
         LET id == created + 1
         IN /\ resp'.code = 201 /\ resp'.id = id
            /\ tasks[id] = NoTask
            /\ tasks'[id].userId = session[c]
            /\ tasks'[id].order = 0
            /\ tasks'[id].status = "pending"
            /\ tasks'[id].title = b.title
            /\ b.priority = Undef => tasks'[id].priority = "medium"
            /\ \A t \in DOMAIN tasks : t # id => tasks'[t] = tasks[t]
            /\ \A p \in DOMAIN users :
                 \A l \in ListResults(p)' :
                   id \in Range(l) <=> p = session[c]]_vars

\* A task just created with the defaults while the other principal owns a task.
C18_Witness ==
  /\ resp.op = "create" /\ resp.code = 201
  /\ tasks[resp.id].userId = session[resp.c]
  /\ tasks[resp.id].status = "pending" /\ tasks[resp.id].priority = "medium"
  /\ tasks[resp.id].order = 0
  /\ \E t \in DOMAIN tasks :
       Exists(t) /\ tasks[t].userId # session[resp.c] /\ tasks[t].status = "done"


\* The fields of body b that hold a value.
Supplied(b) ==
  {f \in {"title", "description", "priority", "status"} : b[f] # Undef}
    \cup (IF b.deadline # NoDeadline THEN {"deadline"} ELSE {})
TaskFields == {"userId", "title", "description", "priority", "deadline",
               "status", "order"}

\* C19: an update changes no task but its target and, of the target, no field
\* the body does not supply (never the owner or the order); a status change
\* changes nothing but the target's status, which becomes the value supplied,
\* so pending -> done -> pending restores the task.
C19_UpdateFrame ==
  [][/\ \A c \in LoggedIn, id \in TaskIds, b \in FieldUpdateBodies :
          UpdateTask(c, id, b) =>
            /\ \A t \in DOMAIN tasks : t # id => tasks'[t] = tasks[t]
            /\ IF Exists(id)
               THEN \A f \in TaskFields \ Supplied(b) :
                      tasks'[id][f] = tasks[id][f]
               ELSE tasks'[id] = tasks[id]
     /\ \A c \in LoggedIn, id \in TaskIds, st \in FieldStatusInputs :
          StatusTask(c, id, st) =>
            /\ \A t \in DOMAIN tasks : t # id => tasks'[t] = tasks[t]
            /\ IF Exists(id)
               THEN /\ \A f \in TaskFields \ {"status"} :
                         tasks'[id][f] = tasks[id][f]
                    /\ (st \in Statuses /\ tasks[id].userId = session[c])
                         => tasks'[id].status = st
               ELSE tasks'[id] = tasks[id]]_vars

\* A status change just applied to a task whose title, priority and deadline
\* were set earlier, next to a task of the other principal.
C19_Witness ==
  /\ resp.op = "status" /\ resp.code = 302 /\ resp.msg = "/dashboard"
  /\ Exists(resp.id)
  /\ tasks[resp.id].userId = session[resp.c]
  /\ tasks[resp.id].status = "done"
  /\ tasks[resp.id].title = "Pay rent"
  /\ tasks[resp.id].priority = "high"
  /\ \E t \in DOMAIN tasks :
       Exists(t) /\ tasks[t].userId # session[resp.c] /\ tasks[t].deadline = 1

\* C20: every stored task's status is pending or done.
C20_StatusDomain ==
  \A t \in DOMAIN tasks : Exists(t) => tasks[t].status \in Statuses


\* C12: a session created at time T resolves to its principal before T + 24h
\* (while not logged out) and to nobody from T + 24h on, whatever requests
\* were made with it: the cookie a browser holds resolves to its user, and a
\* copied cookie value resolves to nobody once the session it names is 24h old.
C12_FixedExpiry ==
  /\ \A c \in Clients :
       jar[c] # NoCookie =>
         Resolve(jar[c].tk) # NoUser /\ Resolve(jar[c].tk) = session[c]
  /\ \A c \in Clients :
       (kept[c] # NoKept /\ now >= kept[c].created + MaxAge)
         => Resolve(kept[c].tk) = NoUser

\* C13: after a logout the cookie value the browser held resolves to nobody.
C13_LogoutDestroys ==
  [][\A c \in Clients :
       Logout(c) =>
         \A tk \in {Signed(i) : i \in DOMAIN users} \cup {Sid(n) : n \in Sids} :
           jar[c].tk = tk => Resolve(tk)' = NoUser]_vars

\* ------------------------------------------------------ field constraints
\* The field constraints of a task body: a title of 1 to 200 characters
\* (required on create), a description of at most 2000, a priority of the
\* enum.
OutOfRange(b, titleRequired) ==
  \/ IF b.title \in {Undef, Null} THEN titleRequired
     ELSE StrLen(b.title) < 1 \/ StrLen(b.title) > 200
  \/ b.description \notin {Undef, Null} /\ StrLen(b.description) > 2000
  \/ b.priority \notin {Undef, Null} /\ b.priority \notin Priorities

\* C21: a create or an update of a logged-in user whose body breaks a field
\* constraint is answered with a validation error (400), and no task is
\* created or modified.
C21_ValidationRejects ==
  [][\A c \in Clients, b \in BadCreateBodies \cup BadUpdateBodies :
       /\ (session[c] # NoUser /\ OutOfRange(b, TRUE)
              /\ CreateTask(c, "api", b))
            => resp'.code = 400 /\ tasks' = tasks /\ created' = created
       /\ \A id \in DOMAIN tasks :
            (Matching(id, session[c]) # {} /\ session[c] # NoUser
               /\ ~NullField(b) /\ OutOfRange(b, FALSE)
               /\ UpdateTask(c, id, b))
              => resp'.code = 400 /\ tasks' = tasks]_vars

\* ------------------------------------------------------ one response each
TaskOps == {"list", "create", "update", "status", "delete", "reorder"}

\* C24: every request to a task operation whose handling has ended was sent
\* a response (a status code), whatever its body held.
C24_EveryRequestAnswered == resp.op \in TaskOps => resp.code # 0

\* ------------------------------------------------------- duplicate ids
HasDuplicate(ids) == \E i, j \in DOMAIN ids : i # j /\ ids[i] = ids[j]

\* C25: a reorder whose list names a task twice is answered 403 and starts no
\* write, even when every id of the list is a task of the requester.
C25_DuplicateIdsForbidden ==
  [][\A c \in Clients, ids \in SeqsUpTo(TaskIds, MaxLen) :
       (/\ session[c] # NoUser
        /\ HasDuplicate(ids)
        /\ Range(ids) \subseteq OwnedBy(session[c])
        /\ ReorderStart(c, ids))
         => resp'.code = 403 /\ tasks' = tasks /\ reqs' = reqs]_vars

\* C25 witness: a reorder naming one task of the requester twice was just
\* answered 403.
C25_Witness ==
  /\ resp.op = "reorder" /\ resp.code = 403
  /\ HasDuplicate(resp.ids)
  /\ session[resp.c] # NoUser
  /\ Range(resp.ids) \subseteq OwnedBy(session[resp.c])

\* ------------------------------------------------------------ the owner
\* C22: a task's userId is the id of the user whose request created it, is
\* never absent, and stays what it was while the task exists, whatever the
\* bodies of the requests hold.
C22_OwnerFixed ==
  [][\A t \in DOMAIN tasks :
       /\ Exists(t)' => tasks'[t].userId # NoUser
       /\ (~Exists(t) /\ Exists(t)') => tasks'[t].userId = session[resp'.c]
       /\ (Exists(t) /\ Exists(t)') => tasks'[t].userId = tasks[t].userId]_vars

\* C22 witness: alice's update, whose body names bob as userId, was just
\* applied to a task, which is still hers.
C22_Witness ==
  /\ resp.op = "update" /\ resp.code = 200 /\ resp.c = "c1"
  /\ tasks[resp.id].title = "Pay rent"
  /\ tasks[resp.id].userId = 1

\* ------------------------------------------------------- failed reorders
\* C23: when a write of a reorder fails, the request is answered with a
\* failure and every task of its list has the order it had when the request
\* was taken.
C23_FailedReorderRestores ==
  [][\A c \in LoggedIn, ids \in SeqsUpTo(TaskIds, MaxLen), i \in 1..MaxLen :
       \A done \in SUBSET (1..MaxLen) :
         ReorderFailed(c, ids, i, done)
           => /\ resp'.code = 500
              /\ \A j \in DOMAIN ids :
                   tasks'[ids[j]].order = tasks[ids[j]].order]_vars

\* ------------------------------------------------------ what a reorder sets
\* C26: each write of a reorder sets the order of the one task it names to
\* the 0-based position of that task in the list and changes nothing else,
\* so tasks outside the list keep their order; and when a reorder answered
\* 200 listed every task of the requester, their orders are 0..n-1.
C26_ReorderSetsOnlyOrder ==
  /\ [][\A r \in Reqs, i \in 1..MaxLen :
          ReorderWrite(r, i)
            => \A t \in DOMAIN tasks :
                 tasks'[t] = IF t = reqs[r].ids[i]
                             THEN [tasks[t] EXCEPT !.order = i - 1]
                             ELSE tasks[t]]_vars
  /\ [](resp.op = "reorder" /\ resp.code = 200
          /\ Range(resp.ids) = OwnedBy(session[resp.c])
        => {tasks[t].order : t \in OwnedBy(session[resp.c])}
             = 0..(Len(resp.ids) - 1))

\* C26 witness: a reorder was just answered 200, and a task of the requester
\* that its list did not name holds the same order as a task of the list.
C26_Witness ==
  /\ resp.op = "reorder" /\ resp.code = 200
  /\ \E t \in OwnedBy(session[resp.c]) \ Range(resp.ids) :
       \E u \in Range(resp.ids) : tasks[t].order = tasks[u].order

\* ------------------------------------------------------ change of password
\* The credential of a user document, and whether pw is that credential.
Credential(d) == <<d.password, d.passwordHash>>
PasswordIs(i, pw) ==
  IF variant = "Server" THEN Compare(pw, users[i].passwordHash)
  ELSE pw # "" /\ users[i].password = pw

\* C27: a change-password request goes on to its save only when its client
\* is logged in, the username is that of the client's own user and the old
\* password is that user's credential; and a credential changes only by the
\* save of such a request, and is that of the user of the requesting client.
C27_OnlyOwnCredential ==
  [][/\ \A c \in Clients :
          (pend[c].kind = "none" /\ pend'[c].kind = "chpw")
            => \A u \in UsernameInputs, old \in Passwords,
                  new \in PasswordInputs :
                 ChangePasswordFind(c, u, old, new)
                   => /\ session[c] # NoUser
                      /\ users[session[c]].username = u
                      /\ HasPassword(session[c])
                      /\ PasswordIs(session[c], old)
     /\ \A i \in DOMAIN users :
          Credential(users'[i]) # Credential(users[i])
            => \E c \in Clients :
                 /\ ChangePasswordSave(c)
                 /\ session[c] = i
                 /\ users[i].username = pend[c].username]_vars

\* C27 witness: a logged-in client's request to change the password of
\* another user, who has one, was just refused.
C27_Witness ==
  /\ resp.op = "chpw" /\ resp.msg # "Password changed successfully"
  /\ session[resp.c] # NoUser
  /\ \E i \in DOMAIN users :
       /\ i # session[resp.c]
       /\ users[i].username = resp.name
       /\ HasPassword(i)

\* C28 (the claim as stated): a change-password request of a logged-in
\* client that names another username and whose fields are filled in (the
\* new password differing from the old) gets one and the same answer, the
\* one given when that user exists and the old password is theirs, whether
\* or not the user exists and whether or not the old password matches.
C28_NoPasswordOracle ==
  [][\A c \in Clients :
       (resp'.op = "chpw" /\ resp'.c = c /\ session[c] # NoUser)
         => \A u \in Usernames, old \in Passwords, new \in Passwords :
              (/\ u # users[session[c]].username
               /\ new # old
               /\ ChangePasswordFind(c, u, old, new))
                => resp'.msg = "You can only change your own password"]_vars

\* -------------------------------------------------- registrations at once
\* C29 (the claim as stated): no two users share a username, and a
\* registration whose username was taken between its findOne and its create
\* stores nothing, opens no session and is answered like any registration
\* under a taken username: "Username already exists."
C29_ConcurrentRegistration ==
  /\ [](\A i, j \in DOMAIN users :
          users[i].username = users[j].username => i = j)
  /\ [][\A c \in Clients :
          (pend[c].kind = "register" /\ NameTaken(pend[c].username)
             /\ RegisterCreate(c))
            => /\ users' = users
               /\ session' = session
               /\ resp'.msg = "Username already exists."]_vars

====
